---------------------------- MODULE Spec2Model ----------------------------
(***************************************************************************)
(* Model of the project-root detector (src/src/lib.rs).                    *)
(*                                                                         *)
(* A path is an absolute path, written as the sequence of its normal       *)
(* components: <<>> is the filesystem root "/", <<"p","src">> is "/p/src". *)
(* The filesystem is a fixed tree of real directories and files, a set of  *)
(* directories that hold a marker file, and at most one symbolic link.     *)
(* Option<T> values are records with a `some` flag.                        *)
(***************************************************************************)
EXTENDS Naturals, Sequences, FiniteSets

VARIABLES
    markers,    \* filesystem: the real directories that hold a marker entry
    link,       \* filesystem: the symbolic link that exists (or none)
    cfg,        \* the Config every call of the run is given
    cache,      \* the caller's shared ExclusionCache
    call,       \* the last API call: its arguments and what it returned
    run,        \* a batch or traversal run in progress, step by step
    thr,        \* the threads that share the cache, each with its position
    cli         \* the command-line process: its arguments and exit code

vars == <<markers, link, cfg, cache, call, run, thr, cli>>

---------------------------------------------------------------------------
(* Bounds of the model                                                     *)

MaxBatch == 2          \* longest file list handed to find_roots_batch
MaxCluster == 2        \* largest dependency cluster handed to find_root
MaxSrcDirs == 1        \* largest caller-supplied source-directory set
MaxCacheEntries == 2
\* size of a source-directory set handed to find_orphanage directly
MaxOrphanDirs == 2
\* largest max_depth option of a traversal
MaxDepth == 2
\* longest path, in components, that a traversal of the model descends to
MaxPathLen == 5   \* cached calls stop growing the shared cache here

---------------------------------------------------------------------------
(* Option values                                                           *)

None == [some |-> FALSE, path |-> <<>>]
Some(p) == [some |-> TRUE, path |-> p]

NoDirs == [some |-> FALSE, dirs |-> {}]
SomeDirs(s) == [some |-> TRUE, dirs |-> s]

NoCluster == [some |-> FALSE, files |-> {}]
SomeCluster(s) == [some |-> TRUE, files |-> s]

\* no run in progress, no thread started, no process started
NoRun == [phase |-> "idle"]
NoThreads == [t \in {} |-> "idle"]
NoCli == [pc |-> "idle"]

---------------------------------------------------------------------------
(* Paths: std::path::Path on absolute Unix paths                           *)

Root == <<>>

\* Path::parent: None for the root, else the path without its last component
Parent(p) == IF p = Root THEN None ELSE Some(SubSeq(p, 1, Len(p) - 1))

\* Path::file_name: None for the root, else the last component
FileName(p) == IF p = Root THEN [some |-> FALSE, name |-> ""]
               ELSE [some |-> TRUE, name |-> p[Len(p)]]

\* Path::components: the root directory component, then the normal ones
Components(p) == <<"/">> \o p

\* Path::join with a single name
Join(dir, name) == Append(dir, name)

\* str::to_lowercase on the names of the model
ToLower(n) == IF n = "NM" THEN "nm" ELSE IF n = "GIT" THEN "git" ELSE n

---------------------------------------------------------------------------
(* The filesystem                                                          *)

RealDirs ==
    { Root, <<"p">>, <<"p", "src">>, <<"p", "src", "u">>,
      <<"p", "nm">>, <<"p", "lib">> }

PlainFiles ==
    { <<"p", "a.rs">>, <<"p", "src", "a.rs">>, <<"p", "src", "u", "c.rs">>,
      <<"p", "nm", "a.rs">>, <<"p", "lib", "b.py">>, <<"p", "lib", "NM">> }

\* directories that may hold a marker entry, and the entry's name on disk
MarkerDirs == { <<"p">>, <<"p", "src">>, <<"p", "lib">> }
MarkerEntry(d) == IF d = <<"p", "lib">> THEN "GIT" ELSE "git"

NoLink == [on |-> FALSE, at |-> Root, to |-> Root]
LinkOptions ==
    { NoLink,
      \* a directory link with an exclusion name, to a directory outside any
      \* exclusion zone
      [on |-> TRUE, at |-> <<"p", "src", "nm">>, to |-> <<"p", "lib">>],
      \* a directory link with a plain name, into an exclusion zone
      [on |-> TRUE, at |-> <<"p", "lib", "l">>, to |-> <<"p", "nm">>],
      \* a file link to a file of the same directory
      [on |-> TRUE, at |-> <<"p", "src", "l">>, to |-> <<"p", "src", "a.rs">>],
      \* a broken link
      [on |-> TRUE, at |-> <<"p", "src", "l">>, to |-> <<"zz">>],
      \* a directory link back to an ancestor
      [on |-> TRUE, at |-> <<"p", "src", "u", "up">>, to |-> <<"p">>] }

\* the real (link-free) files: the plain ones and the marker entries
RealFiles == PlainFiles \cup { Join(d, MarkerEntry(d)) : d \in markers }

RealEntries == RealDirs \cup RealFiles

\* Path::canonicalize: resolve the path component by component from the
\* root, following the link; None when a component does not exist or a
\* non-directory is traversed
RECURSIVE Resolve(_, _)
Resolve(cur, rest) ==
    IF rest = <<>> THEN Some(cur)
    ELSE IF cur \notin RealDirs THEN None
    ELSE LET nxt == Join(cur, Head(rest)) IN
         IF link.on /\ nxt = link.at
         THEN IF link.to \in RealEntries
              THEN Resolve(link.to, Tail(rest))
              ELSE None
         ELSE IF nxt \in RealEntries
              THEN Resolve(nxt, Tail(rest))
              ELSE None

Canonicalize(p) == Resolve(Root, p)

\* Path::exists: the path resolves
Exists(p) == Canonicalize(p).some

\* std::fs::read_dir(dir): the entry names of the directory, or none when
\* it cannot be read
ReadDir(dir) ==
    LET c == Canonicalize(dir) IN
    IF ~c.some \/ c.path \notin RealDirs THEN {}
    ELSE { e[Len(e)] : e \in { x \in RealEntries \ {Root} :
                                  SubSeq(x, 1, Len(x) - 1) = c.path } }
         \cup (IF link.on /\ SubSeq(link.at, 1, Len(link.at) - 1) = c.path
               THEN { link.at[Len(link.at)] } ELSE {})

\* Path::is_dir and Path::is_file: links are followed
IsDir(p) == Canonicalize(p).some /\ Canonicalize(p).path \in RealDirs
IsFile(p) == Canonicalize(p).some /\ Canonicalize(p).path \in RealFiles

\* the order in which the filesystem hands out the entries of a directory
EntryOrder ==
    << "GIT", "NM", "a.rs", "b.py", "c.rs", "git", "l", "lib", "nm", "src",
       "u", "up" >>

\* the iterator of std::fs::read_dir(dir), errors flattened away
ReadDirSeq(dir) == SelectSeq(EntryOrder, LAMBDA n : n \in ReadDir(dir))

\* Path::extension on the names of the model
Extension(name) ==
    IF name \in {"a.rs", "c.rs"} THEN [some |-> TRUE, ext |-> "rs"]
    ELSE IF name = "b.py" THEN [some |-> TRUE, ext |-> "py"]
    ELSE [some |-> FALSE, ext |-> ""]

---------------------------------------------------------------------------
(* Config                                                                  *)

ConfigOptions ==
    { [exclusions |-> {"nm"}, markers |-> {"git"}, case_insensitive |-> ci] :
        ci \in BOOLEAN }

\* Config::matches_exclusion
MatchesExclusion(config, name) ==
    IF config.case_insensitive
    THEN \E e \in config.exclusions : ToLower(e) = ToLower(name)
    ELSE name \in config.exclusions

\* Config::marker_exists_in
MarkerExistsIn(config, dir) ==
    \E marker \in config.markers :
        \/ Exists(Join(dir, marker))
        \/ /\ config.case_insensitive
           /\ \E name \in ReadDir(dir) : ToLower(name) = ToLower(marker)

---------------------------------------------------------------------------
(* ExclusionCache: a map from resolved paths to verdicts behind a lock     *)

EmptyMap == [p \in {} |-> FALSE]
NewCache == [map |-> EmptyMap, poisoned |-> FALSE]

NoCache == [some |-> FALSE, c |-> NewCache]
WithCache(c) == [some |-> TRUE, c |-> c]

NoVerdict == [some |-> FALSE, excluded |-> FALSE]

\* mutant of ExclusionCache::get: with entries in the map, the verdict of
\* some entry is returned whatever the path
CacheGet_AnyEntry(c, path) ==
    IF c.poisoned \/ DOMAIN c.map = {} THEN NoVerdict
    ELSE [some |-> TRUE,
          excluded |-> c.map[CHOOSE k \in DOMAIN c.map :
                               \A j \in DOMAIN c.map : Len(k) >= Len(j)]]

\* mutant of ExclusionCache::get: the map is read although the lock is
\* unusable
CacheGet_IgnorePoison(c, path) ==
    IF path \notin DOMAIN c.map THEN NoVerdict
    ELSE [some |-> TRUE, excluded |-> c.map[path]]

\* ExclusionCache::get: no entry when the lock is unusable
CacheGet(c, path) ==
    IF c.poisoned \/ path \notin DOMAIN c.map THEN NoVerdict
    ELSE [some |-> TRUE, excluded |-> c.map[path]]

\* ExclusionCache::insert: nothing when the lock is unusable
CacheInsert(c, path, excluded) ==
    IF c.poisoned THEN c
    ELSE [c EXCEPT !.map = [q \in DOMAIN c.map \cup {path} |->
                              IF q = path THEN excluded ELSE c.map[q]]]

\* ExclusionCache::clear
CacheClear(c) == IF c.poisoned THEN c ELSE [c EXCEPT !.map = EmptyMap]

---------------------------------------------------------------------------
(* is_excluded                                                             *)

\* mutant of the component scan: the final component is not examined
ComputeExcluded_DirsOnly(resolved, config) ==
    \E i \in 1..(Len(Components(resolved)) - 1) :
        MatchesExclusion(config, Components(resolved)[i])

\* the verdict computed from the resolved path: some component matches
ComputeExcluded(resolved, config) ==
    \E i \in 1..Len(Components(resolved)) :
        MatchesExclusion(config, Components(resolved)[i])

\* mutant of is_excluded: the cache is keyed by the directory of the resolved
\* path, so the files of one directory share an entry
IsExcluded_KeyedByParent(path, config, copt) ==
    LET r == Canonicalize(path)
        key == IF Parent(r.path).some THEN Parent(r.path).path ELSE r.path
    IN
    IF ~r.some THEN [excluded |-> TRUE, copt |-> copt]
    ELSE LET hit == IF copt.some THEN CacheGet(copt.c, key) ELSE NoVerdict IN
         IF hit.some THEN [excluded |-> hit.excluded, copt |-> copt]
         ELSE LET excluded == ComputeExcluded(r.path, config) IN
              [excluded |-> excluded,
               copt |-> IF copt.some
                        THEN WithCache(CacheInsert(copt.c, key, excluded))
                        ELSE copt]

\* mutant of is_excluded: the cache is keyed by the path as given
IsExcluded_KeyedByInput(path, config, copt) ==
    LET r == Canonicalize(path) IN
    IF ~r.some THEN [excluded |-> TRUE, copt |-> copt]
    ELSE LET hit == IF copt.some THEN CacheGet(copt.c, path) ELSE NoVerdict IN
         IF hit.some THEN [excluded |-> hit.excluded, copt |-> copt]
         ELSE LET excluded == ComputeExcluded(r.path, config) IN
              [excluded |-> excluded,
               copt |-> IF copt.some
                        THEN WithCache(CacheInsert(copt.c, path, excluded))
                        ELSE copt]

\* mutant of is_excluded: a path that does not resolve is accepted
IsExcluded_UnresolvedAccepted(path, config, copt) ==
    LET r == Canonicalize(path) IN
    IF ~r.some THEN [excluded |-> FALSE, copt |-> copt]
    ELSE [excluded |-> ComputeExcluded(r.path, config), copt |-> copt]

\* mutant of is_excluded: the components of the path as given are checked,
\* not those of the resolved path
IsExcluded_RawPath(path, config, copt) ==
    LET r == Canonicalize(path) IN
    IF ~r.some THEN [excluded |-> TRUE, copt |-> copt]
    ELSE [excluded |-> ComputeExcluded(path, config), copt |-> copt]

\* mutant of is_excluded: the cache is never consulted, the verdict is
\* computed and stored on every call
IsExcluded_NoLookup(path, config, copt) ==
    LET r == Canonicalize(path) IN
    IF ~r.some THEN [excluded |-> TRUE, copt |-> copt]
    ELSE LET excluded == ComputeExcluded(r.path, config) IN
         [excluded |-> excluded,
          copt |-> IF copt.some
                   THEN WithCache(CacheInsert(copt.c, r.path, excluded))
                   ELSE copt]

\* is_excluded(path, config, cache): the verdict and the cache afterwards
IsExcluded(path, config, copt) ==
    LET r == Canonicalize(path) IN
    IF ~r.some THEN [excluded |-> TRUE, copt |-> copt]
    ELSE LET hit == IF copt.some THEN CacheGet(copt.c, r.path) ELSE NoVerdict IN
         IF hit.some THEN [excluded |-> hit.excluded, copt |-> copt]
         ELSE LET excluded == ComputeExcluded(r.path, config) IN
              [excluded |-> excluded,
               copt |-> IF copt.some
                        THEN WithCache(CacheInsert(copt.c, r.path, excluded))
                        ELSE copt]

---------------------------------------------------------------------------
(* find_marker_root                                                        *)

\* mutant of the loop of find_marker_root: the ascent goes on past a marker
\* and the outermost marker directory wins
RECURSIVE MarkerAscent_Outermost(_, _)
MarkerAscent_Outermost(current, config) ==
    IF FileName(current).some /\ MatchesExclusion(config, FileName(current).name)
    THEN None
    ELSE LET above == IF Parent(current).some /\ Parent(current).path # current
                      THEN MarkerAscent_Outermost(Parent(current).path, config)
                      ELSE None
         IN  IF above.some THEN above
             ELSE IF MarkerExistsIn(config, current) THEN Some(current)
             ELSE None

\* mutant of the loop of find_marker_root: only the first directory is
\* examined, the ascent never moves to the parent
MarkerAscent_NoAscent(current, config) ==
    IF FileName(current).some /\ MatchesExclusion(config, FileName(current).name)
    THEN None
    ELSE IF MarkerExistsIn(config, current) THEN Some(current)
    ELSE None

\* the loop of find_marker_root, from the directory `current`
RECURSIVE MarkerAscent(_, _)
MarkerAscent(current, config) ==
    IF FileName(current).some /\ MatchesExclusion(config, FileName(current).name)
    THEN None
    ELSE IF MarkerExistsIn(config, current) THEN Some(current)
    ELSE IF Parent(current).some /\ Parent(current).path # current
         THEN MarkerAscent(Parent(current).path, config)
         ELSE None

FindMarkerRoot(source, config) ==
    IF ~Parent(source).some THEN None
    ELSE MarkerAscent(Parent(source).path, config)

---------------------------------------------------------------------------
(* find_orphanage                                                          *)

\* the loop of find_orphanage: the ancestors from `current` upward that are
\* members of source_dirs, in the order they are pushed
RECURSIVE AncestorSourceDirs(_, _)
AncestorSourceDirs(current, source_dirs) ==
    (IF current \in source_dirs THEN <<current>> ELSE <<>>)
    \o (IF Parent(current).some /\ Parent(current).path # current
        THEN AncestorSourceDirs(Parent(current).path, source_dirs)
        ELSE <<>>)

\* mutant of find_orphanage: the innermost source directory is returned
FindOrphanage_Innermost(source, source_dirs) ==
    LET parent == IF Parent(source).some THEN Parent(source).path ELSE source
        found == AncestorSourceDirs(parent, source_dirs)
    IN  IF found = <<>> THEN parent ELSE found[1]

\* mutant of find_orphanage: the source directories are ignored and the
\* parent is returned
FindOrphanage_ParentOnly(source, source_dirs) ==
    IF Parent(source).some THEN Parent(source).path ELSE source

\* find_orphanage
FindOrphanage(source, source_dirs) ==
    LET parent == IF Parent(source).some THEN Parent(source).path ELSE source
        found == AncestorSourceDirs(parent, source_dirs)
    IN  IF found = <<>> THEN parent ELSE found[Len(found)]

---------------------------------------------------------------------------
(* compute_lca                                                             *)

\* the inner loop of compute_lca: `current` and every directory above it
RECURSIVE Ancestors(_)
Ancestors(current) ==
    {current} \cup (IF Parent(current).some /\ Parent(current).path # current
                    THEN Ancestors(Parent(current).path)
                    ELSE {})

\* the outer loop of compute_lca over the paths not yet visited; `common`
\* is Option<HashSet<PathBuf>>
RECURSIVE CommonAncestors(_, _)
CommonAncestors(paths, common) ==
    IF paths = {} THEN common
    ELSE LET path == CHOOSE x \in paths : TRUE
             r == Canonicalize(path)
         IN  IF ~r.some THEN CommonAncestors(paths \ {path}, common)
             ELSE CommonAncestors(paths \ {path},
                     [some |-> TRUE,
                      set |-> IF common.some
                              THEN common.set \cap Ancestors(r.path)
                              ELSE Ancestors(r.path)])

ComputeLca(paths) ==
    LET common == CommonAncestors(paths, [some |-> FALSE, set |-> {}]) IN
    IF ~common.some \/ common.set = {} THEN None
    ELSE Some(CHOOSE p \in common.set :
                \A q \in common.set :
                    Len(Components(q)) <= Len(Components(p)))

---------------------------------------------------------------------------
(* find_root_with_cache and find_root                                      *)

\* the filter of Case 3: the cluster members is_excluded rejects are
\* dropped; the cache is threaded through the calls
RECURSIVE ValidFiles(_, _, _)
ValidFiles(cluster, config, copt) ==
    IF cluster = {} THEN [files |-> {}, copt |-> copt]
    ELSE LET f == CHOOSE x \in cluster : TRUE
             e == IsExcluded(f, config, copt)
             rest == ValidFiles(cluster \ {f}, config, e.copt)
         IN  [files |-> (IF e.excluded THEN {} ELSE {f}) \cup rest.files,
              copt |-> rest.copt]

\* Case 3 of find_root_with_cache: the LCA when more than one member is valid
ClusterRoot(valid_files) ==
    IF Cardinality(valid_files) > 1 THEN ComputeLca(valid_files) ELSE None

\* mutant of Case 4: without source directories the file itself is returned
OrphanRoot_SelfFallback(source_file, source_dirs) ==
    IF source_dirs.some
    THEN Some(FindOrphanage(source_file, source_dirs.dirs))
    ELSE Some(source_file)

\* Case 4 of find_root_with_cache
OrphanRoot(source_file, source_dirs) ==
    IF source_dirs.some
    THEN Some(FindOrphanage(source_file, source_dirs.dirs))
    ELSE Some(IF Parent(source_file).some
              THEN Parent(source_file).path
              ELSE source_file)

\* mutant of find_root_with_cache: the cluster is consulted before the markers
FindRootWithCache_ClusterFirst(source_file, source_dirs, dependency_cluster, config, copt) ==
    LET e == IsExcluded(source_file, config, copt) IN
    IF e.excluded THEN [result |-> None, copt |-> e.copt]
    ELSE LET v == IF dependency_cluster.some
                  THEN ValidFiles(dependency_cluster.files, config, e.copt)
                  ELSE [files |-> {}, copt |-> e.copt]
             lca == IF dependency_cluster.some
                    THEN ClusterRoot(v.files) ELSE None
             m == FindMarkerRoot(source_file, config)
         IN  IF lca.some THEN [result |-> lca, copt |-> v.copt]
             ELSE IF m.some THEN [result |-> m, copt |-> v.copt]
             ELSE [result |-> OrphanRoot(source_file, source_dirs),
                   copt |-> v.copt]

\* find_root_with_cache: the result and the cache afterwards
FindRootWithCache(source_file, source_dirs, dependency_cluster, config, copt) ==
    LET e == IsExcluded(source_file, config, copt) IN
    IF e.excluded THEN [result |-> None, copt |-> e.copt]
    ELSE LET m == FindMarkerRoot(source_file, config) IN
         IF m.some THEN [result |-> m, copt |-> e.copt]
         ELSE LET v == IF dependency_cluster.some
                       THEN ValidFiles(dependency_cluster.files, config, e.copt)
                       ELSE [files |-> {}, copt |-> e.copt]
                  lca == IF dependency_cluster.some
                         THEN ClusterRoot(v.files) ELSE None
              IN  IF lca.some THEN [result |-> lca, copt |-> v.copt]
                  ELSE [result |-> OrphanRoot(source_file, source_dirs),
                        copt |-> v.copt]

FindRoot(source_file, source_dirs, dependency_cluster, config) ==
    FindRootWithCache(source_file, source_dirs, dependency_cluster, config,
                      NoCache).result

---------------------------------------------------------------------------
(* find_roots_batch                                                        *)

\* mutant of the first pass: the parents of all the files, the excluded ones
\* included
RECURSIVE SourceDirsOf_Unfiltered(_, _, _)
SourceDirsOf_Unfiltered(files, config, copt) ==
    IF files = <<>> THEN [dirs |-> {}, copt |-> copt]
    ELSE LET f == Head(files)
             e == IsExcluded(f, config, copt)
             rest == SourceDirsOf_Unfiltered(Tail(files), config, e.copt)
         IN  [dirs |-> (IF Parent(f).some THEN {Parent(f).path} ELSE {})
                       \cup rest.dirs,
              copt |-> rest.copt]

\* the first pass of find_roots_batch: the parents of the files is_excluded
\* accepts, the cache threaded through the calls
RECURSIVE SourceDirsOf(_, _, _)
SourceDirsOf(files, config, copt) ==
    IF files = <<>> THEN [dirs |-> {}, copt |-> copt]
    ELSE LET f == Head(files)
             e == IsExcluded(f, config, copt)
             rest == SourceDirsOf(Tail(files), config, e.copt)
         IN  [dirs |-> (IF ~e.excluded /\ Parent(f).some
                        THEN {Parent(f).path} ELSE {}) \cup rest.dirs,
              copt |-> rest.copt]

\* mutant of the second pass: excluded files are dropped from the result
RECURSIVE ResolveAll_DropExcluded(_, _, _, _)
ResolveAll_DropExcluded(files, source_dirs, config, copt) ==
    IF files = <<>> THEN <<>>
    ELSE LET r == FindRootWithCache(Head(files), SomeDirs(source_dirs),
                                    NoCluster, config, copt)
         IN  (IF r.result.some
              THEN <<[file |-> Head(files), root |-> r.result]>> ELSE <<>>)
             \o ResolveAll_DropExcluded(Tail(files), source_dirs, config, r.copt)

\* the second pass of find_roots_batch: one pair per file, in order
RECURSIVE ResolveAll(_, _, _, _)
ResolveAll(files, source_dirs, config, copt) ==
    IF files = <<>> THEN <<>>
    ELSE LET r == FindRootWithCache(Head(files), SomeDirs(source_dirs),
                                    NoCluster, config, copt)
         IN  <<[file |-> Head(files), root |-> r.result]>>
             \o ResolveAll(Tail(files), source_dirs, config, r.copt)

FindRootsBatch(source_files, config) ==
    LET sd == SourceDirsOf(source_files, config, WithCache(NewCache)) IN
    ResolveAll(source_files, sd.dirs, config, sd.copt)

---------------------------------------------------------------------------
(* Inputs of the calls                                                     *)

\* the paths handed to the API as source files
InputFiles ==
    { Root,
      <<"p", "a.rs">>, <<"p", "src", "a.rs">>, <<"p", "src", "u", "c.rs">>,
      <<"p", "nm", "a.rs">>, <<"p", "lib", "b.py">>, <<"p", "lib", "NM">>,
      <<"p", "src", "nm", "b.py">>,       \* through the link named "nm"
      <<"p", "lib", "l", "a.rs">>,        \* through the link into "nm"
      <<"p", "src", "l">>,             \* the file link, or the broken link
      <<"p", "src", "u", "up", "a.rs">>,  \* through the link to an ancestor
      <<"p", "src", "zz">> }           \* no such file

\* the caller-supplied source-directory sets
SrcDirPool == { <<"p">>, <<"p", "src">> }
SrcDirOptions ==
    {NoDirs} \cup
    { SomeDirs(s) : s \in { t \in SUBSET SrcDirPool : Cardinality(t) <= MaxSrcDirs } }

\* the caller-supplied dependency clusters
ClusterPool ==
    { <<"p", "src", "a.rs">>, <<"p", "src", "u", "c.rs">>, <<"p", "src", "l">>,
      <<"p", "nm", "a.rs">> }
ClusterOptions ==
    {NoCluster} \cup
    { SomeCluster(s) : s \in { t \in SUBSET ClusterPool : Cardinality(t) <= MaxCluster } }

\* the file lists handed to find_roots_batch
BatchPool ==
    { <<"p", "a.rs">>, <<"p", "src", "a.rs">>, <<"p", "src", "u", "c.rs">>,
      <<"p", "lib", "b.py">>, <<"p", "nm", "a.rs">>, <<"p", "src", "nm", "b.py">>,
      <<"p", "src", "zz">> }
BatchLists == UNION { [1..n -> BatchPool] : n \in 0..MaxBatch }

---------------------------------------------------------------------------
(* The state machine                                                       *)

NoCall ==
    [op |-> "none", file |-> Root, sd |-> NoDirs, cluster |-> NoCluster,
     files |-> <<>>, excluded |-> FALSE, result |-> None, results |-> <<>>,
     hit |-> FALSE]

Init ==
    /\ markers \in SUBSET MarkerDirs
    /\ link \in LinkOptions
    /\ cfg \in ConfigOptions
    /\ cache = NewCache
    /\ call = NoCall
    /\ run = NoRun
    /\ thr = NoThreads
    /\ cli = NoCli

\* the caller takes the result of the last call; calls are made one at a time
Return ==
    /\ call.op # "none"
    /\ call' = NoCall
    /\ UNCHANGED <<markers, link, cfg, cache, run, thr, cli>>

\* is_excluded(path, &cfg, None)
CallIsExcluded(path) ==
    /\ call.op = "none"
    /\ call' = [NoCall EXCEPT !.op = "is_excluded", !.file = path,
                  !.excluded = IsExcluded(path, cfg, NoCache).excluded]
    /\ UNCHANGED <<markers, link, cfg, cache, run, thr, cli>>

\* find_root(file, sd, cluster, &cfg)
CallFindRoot(file, sd, cluster) ==
    /\ call.op = "none"
    /\ call' = [NoCall EXCEPT !.op = "find_root", !.file = file, !.sd = sd,
                  !.cluster = cluster,
                  !.result = FindRoot(file, sd, cluster, cfg)]
    /\ UNCHANGED <<markers, link, cfg, cache, run, thr, cli>>

\* find_roots_batch(files, &cfg)
CallFindRootsBatch(files) ==
    /\ call.op = "none"
    /\ call' = [NoCall EXCEPT !.op = "find_roots_batch", !.files = files,
                  !.results = FindRootsBatch(files, cfg)]
    /\ UNCHANGED <<markers, link, cfg, cache, run, thr, cli>>

Next ==
    \/ \E path \in InputFiles : CallIsExcluded(path)
    \/ \E file \in InputFiles, sd \in SrcDirOptions, cluster \in ClusterOptions :
          CallFindRoot(file, sd, cluster)
    \/ \E files \in BatchLists : CallFindRootsBatch(files)
    \/ Return

Spec == Init /\ [][Next]_vars

---------------------------------------------------------------------------
(* The state machine of a caller that shares one ExclusionCache between    *)
(* its calls.  `call` keeps the kind of the last call, its result, whether  *)
(* the source file's verdict came from the cache and, for is_excluded, the *)
(* path.                                                                   *)

\* the marker directories of the cached runs
CacheMarkerDirs == { <<"p">> }

\* the source files of the cached calls: pairs of paths with one resolved
\* target, an excluded file, and a file excluded by its own name
CachedFiles ==
    { <<"p", "a.rs">>, <<"p", "src", "a.rs">>, <<"p", "src", "l">>,
      <<"p", "nm", "a.rs">>, <<"p", "lib", "l", "a.rs">>,
      <<"p", "lib", "b.py">>, <<"p", "src", "nm", "b.py">>, <<"p", "lib", "NM">> }

InitCache ==
    /\ markers \in SUBSET CacheMarkerDirs
    /\ link \in LinkOptions
    /\ cfg \in ConfigOptions
    /\ cache = NewCache
    /\ call = NoCall
    /\ run = NoRun
    /\ thr = NoThreads
    /\ cli = NoCli

\* the resolved path has an entry in the cache
Cached(path, c) ==
    Canonicalize(path).some /\ CacheGet(c, Canonicalize(path).path).some

\* is_excluded(path, &cfg, Some(&cache))
CachedIsExcluded(path) ==
    LET r == IsExcluded(path, cfg, WithCache(cache)) IN
    /\ call.op = "none"
    /\ Cardinality(DOMAIN r.copt.c.map) <= MaxCacheEntries
    /\ cache' = r.copt.c
    /\ call' = [NoCall EXCEPT !.op = "is_excluded", !.file = path,
                  !.excluded = r.excluded, !.hit = Cached(path, cache)]
    /\ UNCHANGED <<markers, link, cfg, run, thr, cli>>

\* find_root_with_cache(file, None, cluster, &cfg, Some(&cache))
CachedFindRoot(file, cluster) ==
    LET r == FindRootWithCache(file, NoDirs, cluster, cfg, WithCache(cache)) IN
    /\ call.op = "none"
    /\ Cardinality(DOMAIN r.copt.c.map) <= MaxCacheEntries
    /\ cache' = r.copt.c
    /\ call' = [NoCall EXCEPT !.op = "find_root_with_cache",
                  !.result = r.result, !.hit = Cached(file, cache)]
    /\ UNCHANGED <<markers, link, cfg, run, thr, cli>>

\* cache.clear()
ClearCache ==
    /\ call.op = "none"
    /\ cache' = CacheClear(cache)
    /\ call' = [NoCall EXCEPT !.op = "clear"]
    /\ UNCHANGED <<markers, link, cfg, run, thr, cli>>

NextCache ==
    \/ \E path \in CachedFiles : CachedIsExcluded(path)
    \/ \E file \in CachedFiles, cluster \in ClusterOptions :
          CachedFindRoot(file, cluster)
    \/ ClearCache
    \/ Return

SpecCache == InitCache /\ [][NextCache]_vars

---------------------------------------------------------------------------
(* traverse_and_detect and find_roots_batch, step by step                  *)

NoDepth == [some |-> FALSE, n |-> 0]
SomeDepth(d) == [some |-> TRUE, n |-> d]

\* TraversalOptions
ExtensionOptions == { {}, {"rs"} }
DepthOptions == { NoDepth } \cup { SomeDepth(d) : d \in 0..MaxDepth }
TraversalOptionSet ==
    [extensions : ExtensionOptions, max_depth : DepthOptions]

\* the directories a traversal is started from
StartDirs == { <<"p">>, <<"p", "src">>, <<"p", "lib">>, <<"p", "nm">> }

\* the file lists of the batches that are run step by step
RunBatchPool ==
    { <<"p", "src", "a.rs">>, <<"p", "src", "u", "c.rs">>,
      <<"p", "nm", "a.rs">>, <<"p", "lib", "l", "a.rs">> }
RunBatchLists == UNION { [1..n -> RunBatchPool] : n \in 0..MaxBatch }

\* mutant of matches_extension: a file without an extension passes
MatchesExtension_NoExtensionPasses(options, path) ==
    IF options.extensions = {} THEN TRUE
    ELSE Extension(FileName(path).name).some =>
            Extension(FileName(path).name).ext \in options.extensions

\* TraversalOptions::matches_extension
MatchesExtension(options, path) ==
    IF options.extensions = {} THEN TRUE
    ELSE /\ Extension(FileName(path).name).some
         /\ Extension(FileName(path).name).ext \in options.extensions

\* mutant of the depth check: a directory at the maximum depth is refused
DepthExceeded_AtLimit(options, depth) ==
    options.max_depth.some /\ depth >= options.max_depth.n

\* collect_files_recursive: the depth check
DepthExceeded(options, depth) ==
    options.max_depth.some /\ depth > options.max_depth.n

\* mutant of the boundary check: no directory is pruned
IsBoundary_Never(dir, config) == FALSE

\* collect_files_recursive: the directory is an exclusion boundary
IsBoundary(dir, config) ==
    FileName(dir).some /\ MatchesExclusion(config, FileName(dir).name)

\* a call of collect_files_recursive(dir, .., depth, ..) that has not run yet
Frame(dir, depth) ==
    [dir |-> dir, depth |-> depth, entered |-> FALSE, todo |-> <<>>]

\* the stack without its innermost call
Pop(stack) == SubSeq(stack, 1, Len(stack) - 1)

\* traverse_and_detect at its first call of collect_files_recursive
NewTraverse(start, options) ==
    [phase |-> "collect", kind |-> "traverse", start |-> start,
     options |-> options, stack |-> <<Frame(start, 0)>>,
     files |-> <<>>, listed |-> {}, sd |-> {},
     cache |-> NewCache, results |-> <<>>]

\* find_roots_batch with its file list collected
NewBatch(files) ==
    [phase |-> "collect", kind |-> "batch", start |-> Root,
     options |-> [extensions |-> {}, max_depth |-> NoDepth],
     stack |-> <<>>, files |-> files, listed |-> {}, sd |-> {},
     cache |-> NewCache, results |-> <<>>]

InitRun ==
    /\ markers \in SUBSET CacheMarkerDirs
    /\ link \in LinkOptions
    /\ cfg \in ConfigOptions
    /\ cache = NewCache
    /\ call = NoCall
    /\ run = NoRun
    /\ thr = NoThreads
    /\ cli = NoCli

\* traverse_and_detect(start, &cfg, &options): the cache is created and
\* collect_files_recursive is called on the start directory with depth 0
StartTraverse(start, options) ==
    /\ run.phase = "idle"
    /\ run' = NewTraverse(start, options)
    /\ UNCHANGED <<markers, link, cfg, cache, call, thr, cli>>

\* find_roots_batch(files, &cfg): the cache is created, the list collected
StartBatch(files) ==
    /\ run.phase = "idle"
    /\ run' = NewBatch(files)
    /\ UNCHANGED <<markers, link, cfg, cache, call, thr, cli>>

\* collect_files_recursive, from its entry to the start of the loop: the
\* depth check, the boundary check and read_dir
CollectEnter ==
    /\ run.phase = "collect"
    /\ run.stack # <<>>
    /\ LET top == run.stack[Len(run.stack)] IN
          /\ ~top.entered
          /\ IF \/ DepthExceeded(run.options, top.depth)
                \/ IsBoundary(top.dir, cfg)
                \/ ~IsDir(top.dir)
             THEN run' = [run EXCEPT !.stack = Pop(run.stack)]
             ELSE run' = [run EXCEPT
                     !.stack[Len(run.stack)] =
                         [top EXCEPT !.entered = TRUE,
                                     !.todo = ReadDirSeq(top.dir)],
                     !.listed = @ \cup {[dir |-> top.dir, depth |-> top.depth]}]
    /\ UNCHANGED <<markers, link, cfg, cache, call, thr, cli>>

\* one iteration of the loop of collect_files_recursive
CollectEntry ==
    /\ run.phase = "collect"
    /\ run.stack # <<>>
    /\ LET top == run.stack[Len(run.stack)]
           path == Join(top.dir, Head(top.todo))
           rest == [run.stack EXCEPT ![Len(run.stack)].todo = Tail(top.todo)]
       IN /\ top.entered
          /\ top.todo # <<>>
          /\ IF IsDir(path)
             THEN /\ Len(path) <= MaxPathLen
                  /\ run' = [run EXCEPT
                          !.stack = Append(rest, Frame(path, top.depth + 1))]
             ELSE IF IsFile(path) /\ MatchesExtension(run.options, path)
             THEN run' = [run EXCEPT !.stack = rest,
                                     !.files = Append(@, path)]
             ELSE run' = [run EXCEPT !.stack = rest]
    /\ UNCHANGED <<markers, link, cfg, cache, call, thr, cli>>

\* the loop of collect_files_recursive is over: the call returns
CollectLeave ==
    /\ run.phase = "collect"
    /\ run.stack # <<>>
    /\ LET top == run.stack[Len(run.stack)] IN
          /\ top.entered
          /\ top.todo = <<>>
    /\ run' = [run EXCEPT !.stack = Pop(run.stack)]
    /\ UNCHANGED <<markers, link, cfg, cache, call, thr, cli>>

\* the source directories are computed from the whole file list
ComputeSourceDirs ==
    /\ run.phase = "collect"
    /\ run.stack = <<>>
    /\ LET sd == SourceDirsOf(run.files, cfg, WithCache(run.cache)) IN
          run' = [run EXCEPT
                    !.phase = IF run.files = <<>> THEN "done" ELSE "resolve",
                    !.sd = sd.dirs, !.cache = sd.copt.c]
    /\ UNCHANGED <<markers, link, cfg, cache, call, thr, cli>>

\* the next file of the list is resolved
ResolveStep ==
    /\ run.phase = "resolve"
    /\ LET file == run.files[Len(run.results) + 1]
           r == FindRootWithCache(file, SomeDirs(run.sd), NoCluster, cfg,
                                  WithCache(run.cache))
       IN run' = [run EXCEPT
                    !.phase = IF Len(run.results) + 1 = Len(run.files)
                              THEN "done" ELSE "resolve",
                    !.results = Append(@, [file |-> file, root |-> r.result]),
                    !.cache = r.copt.c]
    /\ UNCHANGED <<markers, link, cfg, cache, call, thr, cli>>

\* the vector of results is returned and the cache dropped
RunReturn ==
    /\ run.phase = "done"
    /\ run' = NoRun
    /\ UNCHANGED <<markers, link, cfg, cache, call, thr, cli>>

NextRun ==
    \/ \E start \in StartDirs, options \in TraversalOptionSet :
          StartTraverse(start, options)
    \/ \E files \in RunBatchLists : StartBatch(files)
    \/ CollectEnter
    \/ CollectEntry
    \/ CollectLeave
    \/ ComputeSourceDirs
    \/ ResolveStep
    \/ RunReturn

SpecRun == InitRun /\ [][NextRun]_vars

\* the same runs, where a walk that has started goes on: collect_files_recursive
\* takes every step it can take next
WalkStep ==
    \/ CollectEnter
    \/ CollectEntry
    \/ CollectLeave

SpecRunFair == SpecRun /\ WF_vars(WalkStep)

---------------------------------------------------------------------------
(* The same caller, with a holder of the cache's lock that panics: the     *)
(* mutex is poisoned from then on, the map behind it stays as it was.      *)

\* a thread panics while it holds the lock of the cache
PanicInLock ==
    /\ call.op = "none"
    /\ ~cache.poisoned
    /\ cache' = [cache EXCEPT !.poisoned = TRUE]
    /\ call' = [NoCall EXCEPT !.op = "panic"]
    /\ UNCHANGED <<markers, link, cfg, run, thr, cli>>

NextPoison ==
    \/ NextCache
    \/ PanicInLock

SpecPoison == InitCache /\ [][NextPoison]_vars

---------------------------------------------------------------------------
(* The command-line process: main, run, run_files and run_traverse.  The   *)
(* library run it starts proceeds by the steps above; the process exits    *)
(* when the run is done.                                                    *)

\* the arguments of the process
CliFilePool == { <<"p", "src", "a.rs">>, <<"p", "nm", "a.rs">> }
CliFileLists == UNION { [1..n -> CliFilePool] : n \in 0..MaxBatch }
CliStdin == { <<>>, << <<"p", "lib", "b.py">> >>, << <<"p", "nm", "a.rs">> >> }
CliOptionSet ==
    [extensions : ExtensionOptions, max_depth : {NoDepth, SomeDepth(0)}]

\* the process after main has returned the exit code
Exited(proc, code) == [proc EXCEPT !.pc = "exited", !.exit = code]

\* the process inside run_files or run_traverse
Running(command, roots_only, check) ==
    [pc |-> "running", command |-> command, roots_only |-> roots_only,
     check |-> check, exit |-> 0]

\* no subcommand: run bails, main prints the error and returns 2
CliNoCommand(check) ==
    /\ cli.pc = "idle"
    /\ cli' = Exited(Running("none", FALSE, check), 2)
    /\ UNCHANGED <<markers, link, cfg, cache, call, run, thr>>

\* files [FILE..] [--batch] [--check]: the list comes from the arguments, or
\* from standard input with --batch or without FILE arguments; an empty
\* list is an error
CliFiles(files, stdin, batch, check) ==
    LET list == IF batch \/ files = <<>> THEN stdin ELSE files IN
    /\ cli.pc = "idle"
    /\ IF list = <<>>
       THEN /\ cli' = Exited(Running("files", FALSE, check), 2)
            /\ run' = run
       ELSE /\ cli' = Running("files", FALSE, check)
            /\ run' = NewBatch(list)
    /\ UNCHANGED <<markers, link, cfg, cache, call, thr>>

\* traverse DIR [-e ..] [-d ..] [--roots-only] [--check]
CliTraverse(directory, options, roots_only, check) ==
    /\ cli.pc = "idle"
    /\ cli' = Running("traverse", roots_only, check)
    /\ run' = NewTraverse(directory, options)
    /\ UNCHANGED <<markers, link, cfg, cache, call, thr>>

\* the results are printed; run_files and run_traverse return
\* Ok(check && any_excluded), run_traverse with --roots-only Ok(false);
\* main turns Ok(true) into 1 and Ok(false) into 0
CliExit ==
    /\ cli.pc = "running"
    /\ run.phase = "done"
    /\ LET any_excluded ==
              \E i \in 1..Len(run.results) : ~run.results[i].root.some
           should_fail ==
              IF cli.command = "traverse" /\ cli.roots_only THEN FALSE
              ELSE cli.check /\ any_excluded
       IN  cli' = Exited(cli, IF should_fail THEN 1 ELSE 0)
    /\ UNCHANGED <<markers, link, cfg, cache, call, run, thr>>

NextCli ==
    \/ \E check \in BOOLEAN : CliNoCommand(check)
    \/ \E files \in CliFileLists, stdin \in CliStdin, batch, check \in BOOLEAN :
          CliFiles(files, stdin, batch, check)
    \/ \E directory \in StartDirs, options \in CliOptionSet,
          roots_only, check \in BOOLEAN :
          CliTraverse(directory, options, roots_only, check)
    \/ CollectEnter
    \/ CollectEntry
    \/ CollectLeave
    \/ ComputeSourceDirs
    \/ ResolveStep
    \/ CliExit

SpecCli == InitRun /\ [][NextCli]_vars

---------------------------------------------------------------------------
(* Threads that share one ExclusionCache and one Config.  A thread holds   *)
(* the lock of the cache inside get and inside insert only; everything     *)
(* else it does is local.                                                  *)

Threads == { "t1", "t2" }

\* the paths and clusters the threads work on
ConcFiles ==
    { <<"p", "src", "a.rs">>, <<"p", "src", "l">>, <<"p", "nm", "a.rs">> }
ConcClusters ==
    { NoCluster,
      SomeCluster({ <<"p", "src", "a.rs">>, <<"p", "nm", "a.rs">> }),
      SomeCluster({ <<"p", "src", "a.rs">>, <<"p", "src", "l">> }) }
ConcLinks ==
    { l \in LinkOptions : ~l.on \/ l.at = <<"p", "src", "l">> }

IdleThread ==
    [pc |-> "idle", op |-> "none", file |-> Root, cluster |-> NoCluster,
     stage |-> "source", cur |-> Root, resolved |-> Root, todo |-> {},
     valid |-> {}, excluded |-> FALSE, result |-> None]

\* the thread after is_excluded has returned `verdict` for the path th.cur
Concluded(th, verdict) ==
    IF th.op = "is_excluded"
    THEN [th EXCEPT !.pc = "done", !.excluded = verdict]
    ELSE IF th.stage = "source"
    THEN IF verdict THEN [th EXCEPT !.pc = "done", !.result = None]
         ELSE IF FindMarkerRoot(th.file, cfg).some
         THEN [th EXCEPT !.pc = "done",
                         !.result = FindMarkerRoot(th.file, cfg)]
         ELSE IF th.cluster.some /\ th.cluster.files # {}
         THEN [th EXCEPT !.pc = "lookup", !.stage = "cluster",
                         !.todo = th.cluster.files,
                         !.cur = CHOOSE x \in th.cluster.files : TRUE]
         ELSE [th EXCEPT !.pc = "done",
                         !.result = OrphanRoot(th.file, NoDirs)]
    ELSE LET valid == th.valid \cup (IF verdict THEN {} ELSE {th.cur})
             todo == th.todo \ {th.cur}
         IN  IF todo # {}
             THEN [th EXCEPT !.pc = "lookup", !.valid = valid, !.todo = todo,
                             !.cur = CHOOSE x \in todo : TRUE]
             ELSE [th EXCEPT !.pc = "done", !.valid = valid, !.todo = todo,
                             !.result = IF ClusterRoot(valid).some
                                        THEN ClusterRoot(valid)
                                        ELSE OrphanRoot(th.file, NoDirs)]

InitConc ==
    /\ markers \in SUBSET CacheMarkerDirs
    /\ link \in ConcLinks
    /\ cfg \in ConfigOptions
    /\ cache = NewCache
    /\ call = NoCall
    /\ run = NoRun
    /\ thr = [t \in Threads |-> IdleThread]
    /\ cli = NoCli

\* thread t calls is_excluded(path, &cfg, Some(&cache))
ThreadIsExcluded(t, path) ==
    /\ thr[t].pc = "idle"
    /\ thr' = [thr EXCEPT ![t] = [IdleThread EXCEPT !.pc = "lookup",
                  !.op = "is_excluded", !.file = path, !.cur = path]]
    /\ UNCHANGED <<markers, link, cfg, cache, call, run, cli>>

\* thread t calls find_root_with_cache(file, None, cluster, &cfg, Some(&cache))
ThreadFindRoot(t, file, cluster) ==
    /\ thr[t].pc = "idle"
    /\ thr' = [thr EXCEPT ![t] = [IdleThread EXCEPT !.pc = "lookup",
                  !.op = "find_root_with_cache", !.file = file,
                  !.cluster = cluster, !.cur = file]]
    /\ UNCHANGED <<markers, link, cfg, cache, call, run, cli>>

\* is_excluded in thread t, up to the end of the cache lookup: the path is
\* resolved, then get runs under the lock
ThreadLookup(t) ==
    /\ thr[t].pc = "lookup"
    /\ LET r == Canonicalize(thr[t].cur)
           hit == IF r.some THEN CacheGet(cache, r.path) ELSE NoVerdict
       IN  thr' = [thr EXCEPT ![t] =
                     IF ~r.some THEN Concluded(thr[t], TRUE)
                     ELSE IF hit.some THEN Concluded(thr[t], hit.excluded)
                     ELSE [thr[t] EXCEPT !.pc = "insert",
                                         !.resolved = r.path]]
    /\ UNCHANGED <<markers, link, cfg, cache, call, run, cli>>

\* is_excluded in thread t after a miss: the verdict is computed, then
\* insert runs under the lock
ThreadInsert(t) ==
    /\ thr[t].pc = "insert"
    /\ LET excluded == ComputeExcluded(thr[t].resolved, cfg) IN
          /\ cache' = CacheInsert(cache, thr[t].resolved, excluded)
          /\ thr' = [thr EXCEPT ![t] = Concluded(thr[t], excluded)]
    /\ UNCHANGED <<markers, link, cfg, call, run, cli>>

\* the caller in thread t takes the result
ThreadReturn(t) ==
    /\ thr[t].pc = "done"
    /\ thr' = [thr EXCEPT ![t] = IdleThread]
    /\ UNCHANGED <<markers, link, cfg, cache, call, run, cli>>

NextConc ==
    \E t \in Threads :
        \/ \E path \in ConcFiles : ThreadIsExcluded(t, path)
        \/ \E file \in ConcFiles, cluster \in ConcClusters :
              ThreadFindRoot(t, file, cluster)
        \/ ThreadLookup(t)
        \/ ThreadInsert(t)
        \/ ThreadReturn(t)

SpecConc == InitConc /\ [][NextConc]_vars

---------------------------------------------------------------------------
(* A caller that keeps one ExclusionCache and passes a configuration of    *)
(* its choice to each call; `cfg` is the configuration of the latest call. *)

ConfigPool ==
    ConfigOptions \cup
    { [exclusions |-> {"lib"}, markers |-> {"git"}, case_insensitive |-> FALSE] }

InitConfigs ==
    /\ markers = {}
    /\ link \in LinkOptions
    /\ cfg \in ConfigPool
    /\ cache = NewCache
    /\ call = NoCall
    /\ run = NoRun
    /\ thr = NoThreads
    /\ cli = NoCli

\* is_excluded(path, &config, Some(&cache))
ConfiguredIsExcluded(path, config) ==
    LET r == IsExcluded(path, config, WithCache(cache)) IN
    /\ call.op = "none"
    /\ Cardinality(DOMAIN r.copt.c.map) <= MaxCacheEntries
    /\ cfg' = config
    /\ cache' = r.copt.c
    /\ call' = [NoCall EXCEPT !.op = "is_excluded", !.file = path,
                  !.excluded = r.excluded, !.hit = Cached(path, cache)]
    /\ UNCHANGED <<markers, link, run, thr, cli>>

NextConfigs ==
    \/ \E path \in CachedFiles, config \in ConfigPool :
          ConfiguredIsExcluded(path, config)
    \/ ClearCache
    \/ Return

SpecConfigs == InitConfigs /\ [][NextConfigs]_vars

---------------------------------------------------------------------------
(* find_orphanage on its own: the function is applied to a path and a set  *)
(* of source directories, the filesystem is not consulted.                 *)

OrphanDirPool == { Root, <<"p">>, <<"p", "src">>, <<"p", "lib">> }

OrphanDirSets == { S \in SUBSET OrphanDirPool : Cardinality(S) <= MaxOrphanDirs }

InitOrphanage ==
    /\ markers = {}
    /\ link = NoLink
    /\ cfg \in ConfigOptions
    /\ cache = NewCache
    /\ call = NoCall
    /\ run = NoRun
    /\ thr = NoThreads
    /\ cli = NoCli

\* find_orphanage(file, &source_dirs)
CallFindOrphanage(file, source_dirs) ==
    /\ call.op = "none"
    /\ call' = [NoCall EXCEPT !.op = "find_orphanage", !.file = file,
                  !.sd = SomeDirs(source_dirs),
                  !.result = Some(FindOrphanage(file, source_dirs))]
    /\ UNCHANGED <<markers, link, cfg, cache, run, thr, cli>>

NextOrphanage ==
    \/ \E file \in InputFiles, source_dirs \in OrphanDirSets :
          CallFindOrphanage(file, source_dirs)
    \/ Return

SpecOrphanage == InitOrphanage /\ [][NextOrphanage]_vars

---------------------------------------------------------------------------
(* The upward-walking loops, one iteration at a time: the marker ascent of *)
(* find_marker_root, the ancestor collection of find_orphanage and the     *)
(* ancestor chain that compute_lca builds for one path.                    *)

\* mutant of the move to the parent: a directory without a parent is its
\* own parent and the loop goes on
AscentNext_RootIsItsOwnParent(current) ==
    [more |-> TRUE,
     to |-> IF Parent(current).some THEN Parent(current).path ELSE current]

\* the end of each loop body: `Some(p) if p != current => current = p`,
\* otherwise break
AscentNext(current) ==
    IF Parent(current).some /\ Parent(current).path # current
    THEN [more |-> TRUE, to |-> Parent(current).path]
    ELSE [more |-> FALSE, to |-> current]

LoopOps == { "find_marker_root", "find_orphanage", "compute_lca" }

\* a call inside one of the loops
Loop(op, file, current) ==
    [op |-> op, pc |-> "loop", file |-> file, current |-> current,
     source_dirs |-> {}, found |-> <<>>, ancestors |-> {}, result |-> None]

InitAscent ==
    /\ markers \in SUBSET CacheMarkerDirs
    /\ link \in LinkOptions
    /\ cfg \in ConfigOptions
    /\ cache = NewCache
    /\ call = NoCall
    /\ run = NoRun
    /\ thr = NoThreads
    /\ cli = NoCli

\* find_marker_root(source, &cfg) up to the loop: None without a parent
StartMarkerAscent(source) ==
    /\ call.op = "none"
    /\ call' = IF Parent(source).some
               THEN Loop("find_marker_root", source, Parent(source).path)
               ELSE [Loop("find_marker_root", source, source)
                        EXCEPT !.pc = "done"]
    /\ UNCHANGED <<markers, link, cfg, cache, run, thr, cli>>

\* one iteration of the loop of find_marker_root
MarkerStep ==
    /\ call.op = "find_marker_root"
    /\ call.pc = "loop"
    /\ call' =
          IF FileName(call.current).some
             /\ MatchesExclusion(cfg, FileName(call.current).name)
          THEN [call EXCEPT !.pc = "done"]
          ELSE IF MarkerExistsIn(cfg, call.current)
          THEN [call EXCEPT !.pc = "done", !.result = Some(call.current)]
          ELSE IF AscentNext(call.current).more
          THEN [call EXCEPT !.current = AscentNext(call.current).to]
          ELSE [call EXCEPT !.pc = "done"]
    /\ UNCHANGED <<markers, link, cfg, cache, run, thr, cli>>

\* find_orphanage(source, &source_dirs) up to the loop
StartOrphanageLoop(source, source_dirs) ==
    /\ call.op = "none"
    /\ call' = [Loop("find_orphanage", source,
                     IF Parent(source).some THEN Parent(source).path
                     ELSE source)
                  EXCEPT !.source_dirs = source_dirs]
    /\ UNCHANGED <<markers, link, cfg, cache, run, thr, cli>>

\* one iteration of the loop of find_orphanage; after the last one the
\* result is chosen
OrphanageStep ==
    /\ call.op = "find_orphanage"
    /\ call.pc = "loop"
    /\ LET found == IF call.current \in call.source_dirs
                    THEN Append(call.found, call.current)
                    ELSE call.found
           parent == IF Parent(call.file).some THEN Parent(call.file).path
                     ELSE call.file
       IN  call' =
             IF AscentNext(call.current).more
             THEN [call EXCEPT !.found = found,
                               !.current = AscentNext(call.current).to]
             ELSE [call EXCEPT !.found = found, !.pc = "done",
                               !.result = IF found = <<>> THEN Some(parent)
                                          ELSE Some(found[Len(found)])]
    /\ UNCHANGED <<markers, link, cfg, cache, run, thr, cli>>

\* compute_lca for one path up to the inner loop: a path that does not
\* resolve is skipped
StartLcaChain(path) ==
    /\ call.op = "none"
    /\ call' = IF Canonicalize(path).some
               THEN Loop("compute_lca", path, Canonicalize(path).path)
               ELSE [Loop("compute_lca", path, path) EXCEPT !.pc = "done"]
    /\ UNCHANGED <<markers, link, cfg, cache, run, thr, cli>>

\* one iteration of the inner loop of compute_lca
LcaStep ==
    /\ call.op = "compute_lca"
    /\ call.pc = "loop"
    /\ call' =
          IF AscentNext(call.current).more
          THEN [call EXCEPT !.ancestors = @ \cup {call.current},
                            !.current = AscentNext(call.current).to]
          ELSE [call EXCEPT !.ancestors = @ \cup {call.current},
                            !.pc = "done"]
    /\ UNCHANGED <<markers, link, cfg, cache, run, thr, cli>>

\* the loop is left and the function returns
LoopReturn ==
    /\ call.op \in LoopOps
    /\ call.pc = "done"
    /\ call' = NoCall
    /\ UNCHANGED <<markers, link, cfg, cache, run, thr, cli>>

NextAscent ==
    \/ \E source \in InputFiles : StartMarkerAscent(source)
    \/ MarkerStep
    \/ \E source \in InputFiles, source_dirs \in OrphanDirSets :
          StartOrphanageLoop(source, source_dirs)
    \/ OrphanageStep
    \/ \E path \in InputFiles : StartLcaChain(path)
    \/ LcaStep
    \/ LoopReturn

SpecAscent == InitAscent /\ [][NextAscent]_vars

\* a loop that has started runs on: nothing else executes in the calling
\* thread
SpecAscentFair ==
    /\ SpecAscent
    /\ WF_vars(MarkerStep)
    /\ WF_vars(OrphanageStep)
    /\ WF_vars(LcaStep)

---------------------------------------------------------------------------
(* Vocabulary of the properties                                            *)

\* the directories above a path, as the path spells them
AncestorDirs(f) == { SubSeq(f, 1, k) : k \in 0..(Len(f) - 1) }

\* the directory directly contains an entry that is a configured marker
\* under the configuration's case rule
DirHoldsMarker(d) ==
    \E n \in ReadDir(d), m \in cfg.markers :
        IF cfg.case_insensitive THEN ToLower(n) = ToLower(m) ELSE n = m

\* the marked directories above a path
MarkedAncestors(f) == { d \in AncestorDirs(f) : DirHoldsMarker(d) }

\* the deepest member of a non-empty set of directories of one chain
Innermost(ds) == CHOOSE d \in ds : \A e \in ds : Len(e) <= Len(d)

\* the path resolves and no component of the resolved path is an exclusion
Accepted(f) ==
    /\ Canonicalize(f).some
    /\ \A i \in 1..Len(Canonicalize(f).path) :
          ~MatchesExclusion(cfg, Canonicalize(f).path[i])

\* the path resolves to a location below a directory with an exclusion name
BelowExclusion(f) ==
    /\ Canonicalize(f).some
    /\ \E i \in 1..(Len(Canonicalize(f).path) - 1) :
          MatchesExclusion(cfg, Canonicalize(f).path[i])

\* a directory between the path and d (d included) has an exclusion name
StoppedBelow(f, d) ==
    \E e \in AncestorDirs(f) :
        /\ Len(e) >= Len(d)
        /\ e # Root
        /\ MatchesExclusion(cfg, e[Len(e)])

\* the cluster members is_excluded accepts
ValidMembers(cluster) == { x \in cluster.files : Accepted(x) }

---------------------------------------------------------------------------
(* C1: find_root_with_cache evaluates its cases in order - excluded, then  *)
(* marker, then cluster LCA (two or more accepted members), then orphanage *)
(* (source directories supplied), then the parent or the path itself - and *)
(* a later case never decides the result when an earlier one applies.      *)
C1_CaseOrder ==
    call.op = "find_root" =>
        LET f == call.file
            m == FindMarkerRoot(f, cfg)
            valid == ValidMembers(call.cluster)
        IN  call.result =
              IF ~Accepted(f) THEN None
              ELSE IF m.some THEN m
              ELSE IF call.cluster.some /\ Cardinality(valid) >= 2
                   THEN ComputeLca(valid)
              ELSE IF call.sd.some THEN Some(FindOrphanage(f, call.sd.dirs))
              ELSE IF Parent(f).some THEN Parent(f) ELSE Some(f)

\* a marker decided although a different cluster LCA and a different
\* orphanage were both available
C1_Witness ==
    /\ call.op = "find_root"
    /\ Accepted(call.file)
    /\ FindMarkerRoot(call.file, cfg).some
    /\ call.result = FindMarkerRoot(call.file, cfg)
    /\ call.cluster.some
    /\ Cardinality(ValidMembers(call.cluster)) >= 2
    /\ ComputeLca(ValidMembers(call.cluster)) # call.result
    /\ call.sd.some
    /\ Some(FindOrphanage(call.file, call.sd.dirs)) # call.result

---------------------------------------------------------------------------
(* C2: a file that lies below a directory with an exclusion name resolves  *)
(* to "excluded" (None) in find_root and in find_roots_batch, whatever     *)
(* markers, source directories or cluster are present; no marker directory *)
(* above the boundary is returned for it.                                  *)
C2_ExclusionDominance ==
    /\ (call.op = "find_root" /\ BelowExclusion(call.file))
          => call.result = None
    /\ call.op = "find_roots_batch" =>
          \A i \in 1..Len(call.results) :
              BelowExclusion(call.results[i].file)
                  => call.results[i].root = None

\* a file below an exclusion directory, a marker above the boundary, and a
\* cluster and source directories supplied
C2_Witness ==
    /\ call.op = "find_root"
    /\ BelowExclusion(call.file)
    /\ MarkedAncestors(call.file) # {}
    /\ call.sd.some /\ call.sd.dirs # {}
    /\ call.cluster.some /\ Cardinality(call.cluster.files) >= 2
    /\ call.result = None

---------------------------------------------------------------------------
(* C3: innermost-wins - for a file is_excluded accepts whose ancestor      *)
(* chain holds markers in an outer and an inner directory, resolution      *)
(* returns the inner one: the first directory on the ascent from the       *)
(* file's parent that directly contains a configured marker.               *)

\* the claim as first stated: accepted file, two or more marked ancestors
C3_InnermostWins_Original ==
    (/\ call.op = "find_root"
     /\ Accepted(call.file)
     /\ Cardinality(MarkedAncestors(call.file)) >= 2)
        => call.result = Some(Innermost(MarkedAncestors(call.file)))

\* as amended: the ascent must reach the inner marker directory, that is,
\* no directory from the file's parent up to it has an exclusion name
C3_InnermostWins ==
    (/\ call.op = "find_root"
     /\ Accepted(call.file)
     /\ MarkedAncestors(call.file) # {}
     /\ ~StoppedBelow(call.file, Innermost(MarkedAncestors(call.file))))
        => call.result = Some(Innermost(MarkedAncestors(call.file)))

\* markers in an outer and an inner directory, the inner one returned
C3_Witness ==
    /\ call.op = "find_root"
    /\ Accepted(call.file)
    /\ Cardinality(MarkedAncestors(call.file)) >= 2
    /\ ~StoppedBelow(call.file, Innermost(MarkedAncestors(call.file)))
    /\ call.result = Some(Innermost(MarkedAncestors(call.file)))

---------------------------------------------------------------------------
(* C4: a file under a directory R that holds a marker, with no marker in   *)
(* any directory between R and the file, resolves to R however many        *)
(* directory levels lie between R and the file.                            *)

\* R holds a marker and no directory of the file's chain below R does
NearestMarked(f, R) ==
    /\ R \in AncestorDirs(f)
    /\ DirHoldsMarker(R)
    /\ \A d \in AncestorDirs(f) : Len(d) > Len(R) => ~DirHoldsMarker(d)

\* the claim as first stated: every file under R
C4_RootAtAnyDepth_Original ==
    call.op = "find_root" =>
        \A R \in AncestorDirs(call.file) :
            NearestMarked(call.file, R) => call.result = Some(R)

\* as amended: every file is_excluded accepts, with no directory from the
\* file's parent up to R bearing an exclusion name
C4_RootAtAnyDepth ==
    (call.op = "find_root" /\ Accepted(call.file)) =>
        \A R \in AncestorDirs(call.file) :
            (NearestMarked(call.file, R) /\ ~StoppedBelow(call.file, R))
                => call.result = Some(R)

\* the marker directory is two levels above the file's own directory
C4_Witness ==
    /\ call.op = "find_root"
    /\ Accepted(call.file)
    /\ \E R \in AncestorDirs(call.file) :
          /\ NearestMarked(call.file, R)
          /\ ~StoppedBelow(call.file, R)
          /\ Len(call.file) >= Len(R) + 3
          /\ call.result = Some(R)

---------------------------------------------------------------------------
(* C5: LCA correctness - when the file has no marker on its ancestor chain *)
(* and a cluster with at least two accepted members is supplied,           *)
(* resolution returns the deepest directory that is an ancestor of every   *)
(* cluster member.                                                         *)

\* the directories that lie above the resolved location of every member
CommonDirs(members) ==
    { d \in RealDirs :
        \A x \in members :
            LET r == Canonicalize(x).path IN
            Len(d) < Len(r) /\ SubSeq(r, 1, Len(d)) = d }

C5_LcaCorrectness ==
    (/\ call.op = "find_root"
     /\ Accepted(call.file)
     /\ MarkedAncestors(call.file) = {}
     /\ call.cluster.some
     /\ Cardinality(ValidMembers(call.cluster)) >= 2)
        => call.result = Some(Innermost(CommonDirs(ValidMembers(call.cluster))))

---------------------------------------------------------------------------
(* C6: orphanage convergence - the unmarked, accepted files of a batch     *)
(* that lie scattered under one unmarked top-level directory all resolve   *)
(* to that directory, not each to its own parent.                          *)

\* every file of the list is accepted and has no marker above it
UnmarkedBatch(files) ==
    \A i \in 1..Len(files) :
        Accepted(files[i]) /\ MarkedAncestors(files[i]) = {}

\* the directory the files of a non-empty list lie under: the deepest
\* directory above all of them
TopDir(files) ==
    Innermost({ d \in AncestorDirs(files[1]) :
                  \A i \in 1..Len(files) : d \in AncestorDirs(files[i]) })

\* the claim as first stated
C6_OrphanageConvergence_Original ==
    (/\ call.op = "find_roots_batch"
     /\ call.files # <<>>
     /\ UnmarkedBatch(call.files))
        => \A i \in 1..Len(call.results) :
              call.results[i].root = Some(TopDir(call.files))

\* as amended: the top-level directory directly contains a file of the batch
C6_OrphanageConvergence ==
    (/\ call.op = "find_roots_batch"
     /\ call.files # <<>>
     /\ UnmarkedBatch(call.files)
     /\ \E j \in 1..Len(call.files) :
           Parent(call.files[j]) = Some(TopDir(call.files)))
        => \A i \in 1..Len(call.results) :
              call.results[i].root = Some(TopDir(call.files))

\* a file in a subdirectory resolved to the top-level directory
C6_Witness ==
    /\ call.op = "find_roots_batch"
    /\ call.files # <<>>
    /\ UnmarkedBatch(call.files)
    /\ \E j \in 1..Len(call.files) :
          Parent(call.files[j]) = Some(TopDir(call.files))
    /\ \E i \in 1..Len(call.results) :
          /\ Parent(call.files[i]) # Some(TopDir(call.files))
          /\ call.results[i].root = Some(TopDir(call.files))

---------------------------------------------------------------------------
(* C7: isolated-orphan fallback - a single accepted file with no marker on *)
(* its ancestor chain, no cluster and no other source file above it        *)
(* resolves to its immediate parent directory, in find_root without source *)
(* directories and as the only file of a batch.                            *)
C7_IsolatedOrphan ==
    /\ (/\ call.op = "find_root"
        /\ ~call.sd.some /\ ~call.cluster.some
        /\ Parent(call.file).some
        /\ Accepted(call.file) /\ MarkedAncestors(call.file) = {})
           => call.result = Parent(call.file)
    /\ (/\ call.op = "find_roots_batch"
        /\ Len(call.files) = 1
        /\ Accepted(call.files[1]) /\ MarkedAncestors(call.files[1]) = {})
           => /\ Len(call.results) = 1
              /\ call.results[1].root = Parent(call.files[1])

\* find_root on a lone unmarked file two levels deep returned its parent
C7_Witness ==
    /\ call.op = "find_root"
    /\ ~call.sd.some /\ ~call.cluster.some
    /\ Len(call.file) >= 3
    /\ Accepted(call.file) /\ MarkedAncestors(call.file) = {}
    /\ call.result = Parent(call.file)

---------------------------------------------------------------------------
(* C9: fail-safe - for a path whose canonical resolution fails,            *)
(* is_excluded returns true and find_root returns None, whatever markers   *)
(* lie above the path.                                                     *)
C9_FailSafe ==
    /\ (call.op = "is_excluded" /\ ~Canonicalize(call.file).some)
          => call.excluded
    /\ (call.op = "find_root" /\ ~Canonicalize(call.file).some)
          => call.result = None

\* find_root on an unresolvable path below a marker directory returned None
C9_Witness ==
    /\ call.op = "find_root"
    /\ ~Canonicalize(call.file).some
    /\ MarkedAncestors(call.file) # {}
    /\ call.result = None

---------------------------------------------------------------------------
(* C10: find_roots_batch returns one (file, result) pair per input file,   *)
(* in input order, duplicates kept, excluded files present with None.      *)
C10_BatchOrder ==
    call.op = "find_roots_batch" =>
        /\ Len(call.results) = Len(call.files)
        /\ \A i \in 1..Len(call.files) :
              /\ call.results[i].file = call.files[i]
              /\ ~Accepted(call.files[i]) => call.results[i].root = None

\* a batch whose first file is excluded and whose second resolves
C10_Witness ==
    /\ call.op = "find_roots_batch"
    /\ Len(call.files) = 2
    /\ ~Accepted(call.files[1])
    /\ Len(call.results) = 2
    /\ call.results[1] = [file |-> call.files[1], root |-> None]
    /\ call.results[2].file = call.files[2]
    /\ call.results[2].root.some

---------------------------------------------------------------------------
(* C8: cache transparency - with the filesystem and the configuration      *)
(* unchanged, resolving a file with the cache warm (after any earlier      *)
(* is_excluded and find_root_with_cache calls on it) gives the same result *)
(* as resolving it with an empty cache and as resolving it with no cache.  *)
(* Stated of the cache the caller holds between two calls.                 *)
C8_CacheTransparency ==
    call.op = "none" =>
    \A file \in CachedFiles, cluster \in ClusterOptions :
        LET warm == FindRootWithCache(file, NoDirs, cluster, cfg,
                                      WithCache(cache)).result
        IN  /\ warm = FindRootWithCache(file, NoDirs, cluster, cfg,
                                        WithCache(NewCache)).result
            /\ warm = FindRoot(file, NoDirs, cluster, cfg)

\* find_root_with_cache took the source file's verdict from the cache and
\* returned a root
C8_Witness ==
    /\ call.op = "find_root_with_cache"
    /\ call.hit
    /\ call.result.some
    /\ cache.map # EmptyMap

---------------------------------------------------------------------------
(* C18: for every resolvable path, is_excluded without a cache hit returns *)
(* true exactly when some component name of the resolved path matches an   *)
(* exclusion name under the case rule of the configuration; the final      *)
(* file name counts like every directory.                                  *)

\* the name equals an exclusion name, letter case ignored when configured
NameExcluded(n) ==
    \E e \in cfg.exclusions :
        IF cfg.case_insensitive THEN ToLower(n) = ToLower(e) ELSE n = e

\* C18: is_excluded on a resolvable path, no cache: the verdict is true iff
\* a component of the resolved path, the final one included, is an
\* exclusion name under the case rule
C18_AnyComponent ==
    (call.op = "is_excluded" /\ Canonicalize(call.file).some) =>
        (call.excluded <=>
            \E i \in 1..Len(Canonicalize(call.file).path) :
                NameExcluded(Canonicalize(call.file).path[i]))

\* a file whose own name is the only matching component, below a marker
\* directory, was judged excluded
C18_Witness ==
    /\ call.op = "is_excluded"
    /\ Canonicalize(call.file).some
    /\ Canonicalize(call.file).path # Root
    /\ LET r == Canonicalize(call.file).path IN
          /\ NameExcluded(r[Len(r)])
          /\ \A i \in 1..(Len(r) - 1) : ~NameExcluded(r[i])
          /\ Parent(r).path \in markers
    /\ call.excluded

---------------------------------------------------------------------------
(* C20: find_orphanage(file, S) returns the outermost member of S on the   *)
(* file's ancestor chain that starts at its parent, and the parent when no *)
(* ancestor is in S.                                                       *)

\* C20: the result is a member of S on the chain with the fewest
\* components, or the immediate parent when the chain holds no member
C20_OutermostOrParent ==
    (call.op = "find_orphanage" /\ Parent(call.file).some) =>
        LET hits == AncestorDirs(call.file) \cap call.sd.dirs IN
        IF hits = {}
        THEN call.result = Some(Parent(call.file).path)
        ELSE /\ call.result.some
             /\ call.result.path \in hits
             /\ \A h \in hits : Len(call.result.path) <= Len(h)

\* two ancestors were in S, neither is the parent, and the one closer to
\* the filesystem root was returned
C20_Witness ==
    /\ call.op = "find_orphanage"
    /\ Parent(call.file).some
    /\ LET hits == AncestorDirs(call.file) \cap call.sd.dirs IN
          /\ Cardinality(hits) = 2
          /\ Parent(call.file).path \notin hits
          /\ call.result.path \in hits
          /\ \E h \in hits : Len(h) > Len(call.result.path)

---------------------------------------------------------------------------
(* C19: the keys of a shared cache are canonical resolved paths; a call on *)
(* a path whose target already has an entry returns the stored verdict and *)
(* adds nothing, a call on an unresolvable path adds nothing, and any      *)
(* other call adds exactly the entry of the resolved path.                 *)

\* resolving the path gives the path itself: no link is left in it
Canonical(k) == Canonicalize(k) = Some(k)

\* what one is_excluded call may do to the cache
C19_Step ==
    (call.op = "none" /\ call'.op = "is_excluded") =>
        LET r == Canonicalize(call'.file) IN
        IF ~r.some THEN cache' = cache
        ELSE IF r.path \in DOMAIN cache.map
             THEN /\ cache' = cache
                  /\ call'.excluded = cache.map[r.path]
             ELSE /\ DOMAIN cache'.map = DOMAIN cache.map \cup {r.path}
                  /\ \A k \in DOMAIN cache.map : cache'.map[k] = cache.map[k]

\* C19: every key is canonical, and each is_excluded call shares the entry
\* of the resolved target, adds none on a hit or on an unresolvable path
C19_CanonicalKeys ==
    /\ [](\A k \in DOMAIN cache.map : Canonical(k))
    /\ [][C19_Step]_vars

\* a call on a path spelled through a link was answered from the single
\* entry stored under the resolved target
C19_Witness ==
    /\ call.op = "is_excluded"
    /\ call.hit
    /\ ~Canonical(call.file)
    /\ DOMAIN cache.map = {Canonicalize(call.file).path}
    /\ call.excluded = cache.map[Canonicalize(call.file).path]

---------------------------------------------------------------------------
(* C16: with the lock of the cache poisoned, get reports no entry, insert  *)
(* and clear change nothing, and is_excluded returns the verdict computed  *)
(* from the resolved path on every call.                                   *)

\* the verdict of the resolved path, true for a path that does not resolve
Verdict(f) ==
    IF Canonicalize(f).some
    THEN \E i \in 1..Len(Canonicalize(f).path) :
             NameExcluded(Canonicalize(f).path[i])
    ELSE TRUE

\* a call made with the lock poisoned: nothing is stored or removed, the
\* verdict is not taken from the map and is the computed one
C16_Step ==
    cache.poisoned =>
        /\ cache' = cache
        /\ call'.op = "is_excluded" =>
              /\ ~call'.hit
              /\ call'.excluded = Verdict(call'.file)

\* C16: once the lock is poisoned get finds no entry for any path, no call
\* changes the cache, and is_excluded recomputes the verdict every time
C16_PoisonedLock ==
    /\ [](cache.poisoned =>
            \A f \in CachedFiles : Canonicalize(f).some =>
                ~CacheGet(cache, Canonicalize(f).path).some)
    /\ [][C16_Step]_vars

\* is_excluded was called with the lock poisoned on a path whose verdict is
\* still in the map behind the lock: the verdict was computed again
C16_Witness ==
    /\ cache.poisoned
    /\ call.op = "is_excluded"
    /\ Canonicalize(call.file).some
    /\ Canonicalize(call.file).path \in DOMAIN cache.map
    /\ ~call.hit
    /\ call.excluded = cache.map[Canonicalize(call.file).path]

---------------------------------------------------------------------------
(* C11: in find_roots_batch and traverse_and_detect the source-directory   *)
(* set is exactly the set of parents of the non-excluded files of the file *)
(* list; it is computed once, before any file is resolved, and the same    *)
(* set and one cache serve the resolution of every file of the run.        *)

\* the parents of the files of the list that is_excluded accepts
AcceptedParents(files) ==
    { Parent(files[i]).path :
        i \in { j \in 1..Len(files) :
                  Accepted(files[j]) /\ Parent(files[j]).some } }

\* the set is right once computed and every result so far was obtained
\* with it; nothing is resolved before it is computed
C11_State ==
    /\ run.phase = "collect" => run.results = <<>>
    /\ run.phase \in {"resolve", "done"} =>
          /\ run.sd = AcceptedParents(run.files)
          /\ \A i \in 1..Len(run.results) :
                run.results[i] =
                    [file |-> run.files[i],
                     root |-> FindRoot(run.files[i],
                                       SomeDirs(AcceptedParents(run.files)),
                                       NoCluster, cfg)]

\* while the files are resolved the set and the list stay as they are and
\* the one cache of the run only gains entries
C11_Step ==
    run.phase = "resolve" =>
        /\ run'.phase \in {"resolve", "done"}
        /\ run'.sd = run.sd
        /\ run'.files = run.files
        /\ \A k \in DOMAIN run.cache.map :
              /\ k \in DOMAIN run'.cache.map
              /\ run'.cache.map[k] = run.cache.map[k]

\* C11: the source directories are the parents of the accepted files of
\* the list, computed once before the first resolution and used unchanged,
\* with one cache, for every file of the run
C11_SourceDirsOnce ==
    /\ []C11_State
    /\ [][C11_Step]_vars

\* a finished run whose list held an excluded file in a directory of its
\* own, left out of the set, and an orphan resolved to a member of the set
C11_Witness ==
    /\ run.phase = "done"
    /\ \E i \in 1..Len(run.files) :
          /\ ~Accepted(run.files[i])
          /\ Parent(run.files[i]).path \notin run.sd
    /\ \E j \in 1..Len(run.results) :
          /\ run.results[j].root.some
          /\ run.results[j].root.path \in run.sd
          /\ MarkedAncestors(run.files[j]) = {}

---------------------------------------------------------------------------
(* Vocabulary of the traversal properties                                  *)

\* a traversal is running or has finished
Traversing == run.phase # "idle" /\ run.kind = "traverse"

\* the walk of a traversal is over: every call of collect_files_recursive
\* has returned
Walked == Traversing /\ run.phase \in {"resolve", "done"}

\* the directories whose entries were read, as the walk spelled them
ListedDirs == { l.dir : l \in run.listed }

\* the files collected
CollectedFiles == { run.files[i] : i \in 1..Len(run.files) }

\* the walk went into every subdirectory of a directory it read, unless the
\* entry has an exclusion name or lies beyond the depth limit
DescentComplete ==
    \A l \in run.listed : \A n \in ReadDir(l.dir) :
        ( /\ IsDir(Join(l.dir, n))
          /\ ~NameExcluded(n)
          /\ run.options.max_depth.some => l.depth + 1 <= run.options.max_depth.n )
        => [dir |-> Join(l.dir, n), depth |-> l.depth + 1] \in run.listed

---------------------------------------------------------------------------
(* C12: traversal pruning.  The walk never reads a directory that it       *)
(* reaches under an exclusion name, so no returned path has an exclusion   *)
(* name between the start directory and the file, and the sibling          *)
(* directories are still visited.                                          *)

\* the name of the directory a path leads to, links followed
RealName(d) ==
    IF Canonicalize(d).some /\ Canonicalize(d).path # Root
    THEN Some(Canonicalize(d).path[Len(Canonicalize(d).path)])
    ELSE None

\* C12 as stated: no directory whose entries are read has an exclusion
\* name, whether the name on the path or the name of the directory itself
C12_Pruning_Original ==
    Traversing =>
        \A d \in ListedDirs :
            /\ FileName(d).some => ~NameExcluded(FileName(d).name)
            /\ RealName(d).some => ~NameExcluded(RealName(d).path)

\* C12: no directory is read under a path with an exclusion name from the
\* start directory on, no collected path has one between the start
\* directory and the file, and every other subdirectory within the depth
\* limit is read
C12_Pruning ==
    Traversing =>
        /\ \A d \in ListedDirs :
              \A i \in 1..Len(d) :
                  i >= Len(run.start) => ~NameExcluded(d[i])
        /\ \A f \in CollectedFiles :
              \A i \in 1..(Len(f) - 1) :
                  i >= Len(run.start) => ~NameExcluded(f[i])
        /\ Walked => DescentComplete

\* a finished walk that read a directory with an exclusion-named
\* subdirectory holding a file, left it unread, and collected files from
\* two sibling directories
C12_Witness ==
    /\ Walked
    /\ \E d \in ListedDirs : \E n \in ReadDir(d) :
          /\ NameExcluded(n)
          /\ IsDir(Join(d, n))
          /\ \E m \in ReadDir(Join(d, n)) : IsFile(Join(Join(d, n), m))
          /\ Join(d, n) \notin ListedDirs
          /\ \E s1, s2 \in ReadDir(d) :
                /\ s1 # s2
                /\ \E f \in CollectedFiles : Parent(f).path = Join(d, s1)
                /\ \E f \in CollectedFiles : Parent(f).path = Join(d, s2)

---------------------------------------------------------------------------
(* C13: with max_depth = d the traversal collects exactly the matching     *)
(* files whose directory is at most d levels below the start directory,    *)
(* and reads no directory deeper than d; with max_depth unset there is no  *)
(* limit.  The directories are those the walk can reach: below the start   *)
(* directory through names that are not exclusion names.                   *)

\* the directories at most `levels` levels below dir, dir included, that are
\* reached through names that are not exclusion names
RECURSIVE DirsWithin(_, _)
DirsWithin(dir, levels) ==
    IF ~IsDir(dir) \/ (FileName(dir).some /\ NameExcluded(FileName(dir).name))
    THEN {}
    ELSE {dir} \cup
         (IF levels = 0 THEN {}
          ELSE UNION { DirsWithin(Join(dir, n), levels - 1) : n \in ReadDir(dir) })

\* the levels a finished walk may have gone down
LevelsAllowed ==
    IF run.options.max_depth.some THEN run.options.max_depth.n ELSE MaxPathLen

\* the file entries of the directories that pass the extension filter
MatchingFilesIn(dirs) ==
    { f \in UNION { { Join(d, n) : n \in ReadDir(d) } : d \in dirs } :
        /\ IsFile(f)
        /\ \/ run.options.extensions = {}
           \/ /\ Extension(f[Len(f)]).some
              /\ Extension(f[Len(f)]).ext \in run.options.extensions }

\* C13: no directory deeper than max_depth is ever read; a finished walk
\* has read exactly the directories within max_depth levels (all of them
\* when it is unset) and collected exactly their matching files
C13_MaxDepth ==
    Traversing =>
        /\ \A l \in run.listed :
              /\ l.depth = Len(l.dir) - Len(run.start)
              /\ run.options.max_depth.some =>
                    l.depth <= run.options.max_depth.n
        /\ Walked =>
              /\ ListedDirs = DirsWithin(run.start, LevelsAllowed)
              /\ CollectedFiles =
                    MatchingFilesIn(DirsWithin(run.start, LevelsAllowed))

\* a finished walk with max_depth = 1 collected a file one level down and
\* left a directory two levels down, with a file in it, unread
C13_Witness ==
    /\ Walked
    /\ run.options.max_depth = SomeDepth(1)
    /\ \E l \in run.listed : \E n \in ReadDir(l.dir) :
          /\ l.depth = 1
          /\ \E f \in CollectedFiles : Parent(f).path = l.dir
          /\ IsDir(Join(l.dir, n))
          /\ ~NameExcluded(n)
          /\ Join(l.dir, n) \notin ListedDirs
          /\ \E m \in ReadDir(Join(l.dir, n)) :
                /\ IsFile(Join(Join(l.dir, n), m))
                /\ Join(Join(l.dir, n), m) \notin CollectedFiles

\* a finished walk without max_depth read a directory two levels down
C13_WitnessUnset ==
    /\ Walked
    /\ ~run.options.max_depth.some
    /\ \E l \in run.listed : l.depth = 2
    /\ \E f \in CollectedFiles : Len(f) = Len(run.start) + 3

---------------------------------------------------------------------------
(* C14: the traversal collects a regular file iff the extension allow-list *)
(* is empty or the extension of the file is in the list; with a non-empty  *)
(* list a file without an extension is never collected.                    *)

\* the file entries of the directories that the walk has read
FilesSeen ==
    { f \in UNION { { Join(d, n) : n \in ReadDir(d) } : d \in ListedDirs } :
        IsFile(f) }

\* C14: of the files in the directories read, exactly those are collected
\* whose extension is in the allow-list, all of them when the list is empty,
\* and none without an extension when it is not
C14_ExtensionFilter ==
    /\ Walked =>
          \A f \in FilesSeen :
              f \in CollectedFiles <=>
                  \/ run.options.extensions = {}
                  \/ /\ Extension(f[Len(f)]).some
                     /\ Extension(f[Len(f)]).ext \in run.options.extensions
    /\ Traversing =>
          /\ CollectedFiles \subseteq FilesSeen
          /\ run.options.extensions # {} =>
                \A f \in CollectedFiles : Extension(f[Len(f)]).some

\* a finished walk with the allow-list {rs} read a directory that holds a
\* file with that extension, one with another extension and one without
\* any, and collected the first only
C14_Witness ==
    /\ Walked
    /\ run.options.extensions = {"rs"}
    /\ \E f, g, h \in FilesSeen :
          /\ Extension(f[Len(f)]) = [some |-> TRUE, ext |-> "rs"]
          /\ Extension(g[Len(g)]) = [some |-> TRUE, ext |-> "py"]
          /\ ~Extension(h[Len(h)]).some
          /\ f \in CollectedFiles
          /\ g \notin CollectedFiles
          /\ h \notin CollectedFiles

---------------------------------------------------------------------------
(* C15: for any interleaving of is_excluded and find_root_with_cache calls *)
(* of threads that share one cache and one configuration, every call       *)
(* returns what it returns when run alone, and the cache never holds a     *)
(* verdict that differs from the one computed from the key's components.   *)

\* the two threads are inside is_excluded at the same time
Overlapping ==
    \A t \in Threads : thr[t].pc \in {"lookup", "insert"}

\* C15: a finished call holds the result of the same call made alone, and
\* every entry of the cache is the verdict of its key
C15_Interleaving ==
    /\ \A t \in DOMAIN thr :
          thr[t].pc = "done" =>
              IF thr[t].op = "is_excluded"
              THEN thr[t].excluded = IsExcluded(thr[t].file, cfg, NoCache).excluded
              ELSE thr[t].result =
                     FindRoot(thr[t].file, NoDirs, thr[t].cluster, cfg)
    /\ \A k \in DOMAIN cache.map :
          cache.map[k] = \E i \in 1..Len(k) : NameExcluded(k[i])

\* both threads missed the same resolved path, both are about to insert it
C15_Witness ==
    /\ DOMAIN thr = Threads
    /\ \A t \in Threads : thr[t].pc = "insert"
    /\ \A t, u \in Threads : thr[t].resolved = thr[u].resolved
    /\ \E t, u \in Threads : thr[t].cur # thr[u].cur

\* one thread finished a find_root_with_cache call that went through the
\* cluster while the other thread was inside is_excluded
C15_WitnessDone ==
    /\ DOMAIN thr = Threads
    /\ \E t, u \in Threads :
          /\ thr[t].pc = "done"
          /\ thr[t].op = "find_root_with_cache"
          /\ thr[t].stage = "cluster"
          /\ thr[t].result.some
          /\ thr[u].pc = "insert"

---------------------------------------------------------------------------
(* C17: --check.  In every command mode the process exits with 1 when      *)
(* --check is set and a processed file resolved to "excluded", with 0 when *)
(* the run succeeds and --check is unset or no file is excluded, and with  *)
(* 2 on an error.                                                          *)

\* the process ended on an error: no subcommand, or no file to process
CliFailed == cli.command = "none" \/ run.phase = "idle"

\* a file processed by the run resolved to "excluded"
AnyFileExcluded ==
    \E i \in 1..Len(run.results) : run.results[i].root = None

\* C17: the exit code is 2 on an error, else 1 when --check is set and a
\* processed file resolved to "excluded", else 0, whatever the mode
C17_CheckExitCode ==
    cli.pc = "exited" =>
        cli.exit = IF CliFailed THEN 2
                   ELSE IF cli.check /\ AnyFileExcluded THEN 1
                   ELSE 0

\* the same, the traversals with --roots-only left aside
C17_CheckExitCode_FileModes ==
    (cli.pc = "exited" /\ ~(cli.command = "traverse" /\ cli.roots_only)) =>
        cli.exit = IF CliFailed THEN 2
                   ELSE IF cli.check /\ AnyFileExcluded THEN 1
                   ELSE 0

\* a traversal without --roots-only, with --check, met an excluded file and
\* the process exited with 1
C17_WitnessTraverse ==
    /\ cli.pc = "exited"
    /\ cli.command = "traverse" /\ ~cli.roots_only /\ cli.check
    /\ AnyFileExcluded
    /\ cli.exit = 1

\* a traversal with --roots-only and --check met an excluded file and the
\* process exited with 0
C17_RootsOnlyExitsZero ==
    /\ cli.pc = "exited"
    /\ cli.command = "traverse" /\ cli.roots_only /\ cli.check
    /\ AnyFileExcluded
    /\ cli.exit = 0

---------------------------------------------------------------------------
(* C23: whenever find_root_with_cache returns Some(root) for a file that   *)
(* has a parent, root is a directory on the file's own ancestor chain: the *)
(* parent or a directory above it, whatever markers, source directories    *)
(* and cluster are supplied.                                               *)

\* C23: a returned root is one of the directories above the file
C23_RootOnOwnChain ==
    (call.op = "find_root" /\ Parent(call.file).some /\ call.result.some)
        => call.result.path \in AncestorDirs(call.file)

\* the same for the results that the cluster did not decide: no cluster,
\* fewer than two accepted members, or a marker found first
C23_RootOnOwnChain_NotFromCluster ==
    (/\ call.op = "find_root"
     /\ Parent(call.file).some
     /\ call.result.some
     /\ \/ ~call.cluster.some
        \/ Cardinality(ValidMembers(call.cluster)) < 2
        \/ FindMarkerRoot(call.file, cfg).some)
        => call.result.path \in AncestorDirs(call.file)

\* two members of the cluster resolve to the file itself and the file is
\* returned as its own root
C23_FileReturnedAsRoot ==
    /\ call.op = "find_root"
    /\ call.cluster.some
    /\ call.file \in call.cluster.files
    /\ IsFile(call.file)
    /\ call.result = Some(call.file)

\* the cluster does not hold the file and the returned directory does not
\* contain the file
C23_RootBesideFile ==
    /\ call.op = "find_root"
    /\ ~link.on
    /\ call.cluster.some
    /\ call.file \notin call.cluster.files
    /\ call.result.some
    /\ call.result.path \in RealDirs
    /\ call.result.path \notin AncestorDirs(call.file)

---------------------------------------------------------------------------
(* C24: for any sequence of is_excluded calls on one cache in which the    *)
(* calls may use different configurations, each call returns the verdict   *)
(* of an uncached call with the same path and the same configuration.      *)

\* C24 as stated: the verdict is the uncached one under the configuration
\* of the call
C24_ConfigPerCall_Original ==
    call.op = "is_excluded" => call.excluded = Verdict(call.file)

\* the verdict of a resolved path under a configuration
KeyVerdict(k, config) ==
    \E i \in 1..Len(k), e \in config.exclusions :
        IF config.case_insensitive THEN ToLower(k[i]) = ToLower(e)
        ELSE k[i] = e

\* one call: without an entry for the resolved path the verdict is the
\* uncached one under the configuration of the call; with an entry it is
\* the stored verdict, whatever the configuration of the call, and so the
\* uncached one when the entries agree with that configuration
C24_Step ==
    (call.op = "none" /\ call'.op = "is_excluded") =>
        LET r == Canonicalize(call'.file) IN
        IF ~r.some THEN call'.excluded
        ELSE /\ IF r.path \in DOMAIN cache.map
                THEN /\ call'.excluded = cache.map[r.path]
                     /\ cache' = cache
                ELSE /\ call'.excluded = KeyVerdict(r.path, cfg')
                     /\ cache'.map[r.path] = KeyVerdict(r.path, cfg')
             /\ (\A k \in DOMAIN cache.map :
                    cache.map[k] = KeyVerdict(k, cfg'))
                  => call'.excluded = KeyVerdict(r.path, cfg')

\* C24: a call returns the uncached verdict of its own configuration unless
\* the resolved path has an entry; then it returns the entry, stored under
\* the configuration of an earlier call
C24_ConfigPerCall == [][C24_Step]_vars

\* a call found the verdict stored under another configuration and
\* returned it, although its own configuration gives the opposite
C24_Witness ==
    /\ call.op = "is_excluded"
    /\ call.hit
    /\ call.excluded = cache.map[Canonicalize(call.file).path]
    /\ call.excluded # KeyVerdict(Canonicalize(call.file).path, cfg)

\* the stale verdict accepts a file that the configuration of the call
\* excludes
C24_WitnessAccepted ==
    C24_Witness /\ ~call.excluded

---------------------------------------------------------------------------
(* C21: every upward-walking loop terminates for every input path: each    *)
(* step moves to a strictly shorter parent, and the loop stops when the    *)
(* current directory has no parent or is its own parent.                   *)

\* a call is inside its loop
Looping == call.op \in LoopOps /\ call.pc = "loop"

\* the call has left its loop
LoopDone == call.op \in LoopOps /\ call.pc = "done"

\* an iteration that stays in the loop moves to the parent, which is
\* strictly shorter; one that has no parent to move to leaves the loop
C21_Step ==
    Looping =>
        /\ (call'.op \in LoopOps /\ call'.pc = "loop") =>
              /\ Parent(call.current) = Some(call'.current)
              /\ Len(call'.current) < Len(call.current)
        /\ ~Parent(call.current).some =>
              (call'.op \in LoopOps /\ call'.pc = "done")

\* C21: every iteration shortens the current path, and every loop that
\* has started is left
C21_LoopsTerminate ==
    /\ [][C21_Step]_vars
    /\ Looping ~> LoopDone

\* the loops agree with the functions they belong to
C21_LoopResults ==
    LoopDone =>
        /\ call.op = "find_marker_root" =>
              call.result = FindMarkerRoot(call.file, cfg)
        /\ call.op = "find_orphanage" =>
              call.result = Some(FindOrphanage(call.file, call.source_dirs))
        /\ (call.op = "compute_lca" /\ Canonicalize(call.file).some) =>
              call.ancestors = Ancestors(Canonicalize(call.file).path)

\* a loop climbed from three levels down to the filesystem root and was
\* left there
C21_Witness ==
    /\ LoopDone
    /\ call.current = Root
    /\ Len(call.file) >= 4
    /\ call.op = "find_orphanage"
    /\ Len(call.found) = 2

---------------------------------------------------------------------------
(* C22: traverse_and_detect terminates on every finite directory tree,     *)
(* also when max_depth is unset and a directory link points back to one of *)
(* its own ancestors.                                                      *)

\* the link leads from a directory back to one of its ancestors
LinkLoop ==
    /\ link.on
    /\ Len(link.to) < Len(link.at)
    /\ SubSeq(link.at, 1, Len(link.to)) = link.to

\* the calls of collect_files_recursive that are reading a directory, from
\* the outermost to the innermost
OpenCalls == { i \in 1..Len(run.stack) : run.stack[i].entered }

\* a call reads a directory that an enclosing call is still reading
Reentered ==
    \E i, j \in OpenCalls :
        /\ i < j
        /\ Canonicalize(run.stack[i].dir) = Canonicalize(run.stack[j].dir)

WalkReturned == Traversing /\ run.stack = <<>>

\* C22 as a property of whole runs: the walk of every traversal returns
C22_EveryWalkEnds == Traversing ~> WalkReturned

\* the walk returns when no link leads back to an ancestor
C22_WalkEndsWithoutLoop == (Traversing /\ ~LinkLoop) ~> WalkReturned

\* the walk returns when max_depth is set
C22_WalkEndsWithDepthLimit ==
    (Traversing /\ run.options.max_depth.some) ~> WalkReturned

\* the walk came back to its start directory through the link and returns
\* a file a second time, under a longer path
C22_SameFileTwice ==
    /\ Traversing
    /\ LinkLoop
    /\ ~run.options.max_depth.some
    /\ \E i, j \in 1..Len(run.files) :
          /\ i < j
          /\ Canonicalize(run.files[i]) = Canonicalize(run.files[j])

===========================================================================
